---- MODULE Spec2Model ----
(***************************************************************************)
(* Model of the two Streamlit scripts of the repository.                   *)
(*                                                                         *)
(*   src/main.py  "Multi-Omic Pathway Explorer using RaMP": the handler of *)
(*                the "Query Pathways" button (name mapping, pathway       *)
(*                query, table, network graph, CSV/PDF export).            *)
(*   src/app.py   "Multi-Omics Disease Explorer": the script body that     *)
(*                filters the nodes of a disease and builds the edge list. *)
(*                                                                         *)
(* Python strings that the code takes apart (lower(), startswith(), ==,    *)
(* `in`) and the values of JSON fields are sequences of one-character      *)
(* strings; message texts, dict keys and enumerations are TLA+ strings.    *)
(***************************************************************************)
EXTENDS Naturals, Sequences, FiniteSets, TLC

VARIABLES
    \* ---- src/main.py ----
    pc,             \* position of the button handler
    analyte_input,  \* st.text_input (line 95)
    analyte_type,   \* st.selectbox (line 96), reassigned on line 106
    analyte_id,     \* lines 105 / 111
    name_service,   \* what the MetaboAnalyst URL answers during this run
    pending,        \* the blocking HTTP call the handler is inside of
    hung,           \* the pending call never returns
    lookups,        \* requests.get calls issued in this run (line 20)
    requests,       \* requests posted to the RaMP API in this run (line 39)
    result,         \* return value of query_ramp_api (line 113)
    messages,       \* st.success / st.error / st.warning shown, in order
    table,          \* the DataFrame given to st.dataframe (lines 116-117)
    graph,          \* generate_network_graph's return value (line 120)
    csv_lines,      \* lines of results.csv (line 127)
    pdf_lines,      \* text lines of results.pdf (line 128)
    escaped,        \* an exception left the handler
    \* ---- src/app.py ----
    selected_disease, search_term, nodes, node_types, edges

mainVars == <<pc, analyte_input, analyte_type, analyte_id, name_service,
              pending, hung, lookups, requests, result, messages, table,
              graph, csv_lines, pdf_lines, escaped>>
appVars == <<selected_disease, search_term, nodes, node_types, edges>>
vars == <<mainVars, appVars>>

----------------------------------------------------------------------------
(* Bounds *)

\* longest list of entries a RaMP response carries in the model
MaxEntries == 2
\* longest search term typed into the disease explorer
MaxTermLen == 2

----------------------------------------------------------------------------
(* Python str operations *)

UpperChars == <<"A","B","C","D","E","F","G","H","I","J","K","L","M",
                "N","O","P","Q","R","S","T","U","V","W","X","Y","Z">>
LowerChars == <<"a","b","c","d","e","f","g","h","i","j","k","l","m",
                "n","o","p","q","r","s","t","u","v","w","x","y","z">>

\* the lower-case letter of each upper-case letter
ToLower ==
    [c \in {UpperChars[i] : i \in 1..26} |->
        LowerChars[CHOOSE i \in 1..26 : UpperChars[i] = c]]

\* str.lower() on one character
lowerChar(c) == IF c \in DOMAIN ToLower THEN ToLower[c] ELSE c

\* str.lower()
lower(s) == [i \in 1..Len(s) |-> lowerChar(s[i])]

\* str.startswith(prefix)
startswith(s, prefix) ==
    /\ Len(s) >= Len(prefix)
    /\ SubSeq(s, 1, Len(prefix)) = prefix

\* `sub in s` for two str
contains(s, sub) ==
    \E k \in 0..Len(s) :
        /\ k + Len(sub) <= Len(s)
        /\ SubSeq(s, k + 1, k + Len(sub)) = sub

\* dict.get(key, default)
Get(d, key, default) == IF key \in DOMAIN d THEN d[key] ELSE default

\* Python's None / a value, for the return of map_common_name_to_hmdb
None == [some |-> FALSE, val |-> <<>>]
Some(v) == [some |-> TRUE, val |-> v]
\* truth value of `mapped_id` (None and "" are falsy)
Truthy(o) == o.some /\ o.val # <<>>

----------------------------------------------------------------------------
(* Strings of the model *)

s_hmdb == <<"h","m","d","b">>
s_uniprot == <<"u","n","i","p","r","o","t">>
s_Unknown == <<"U","n","k","n","o","w","n">>
s_P04637 == <<"P","0","4","6","3","7">>
s_HMDB0000122 == <<"H","M","D","B","0","0","0","0","1","2","2">>
s_HMDB0000516 == <<"H","M","D","B","0","0","0","0","5","1","6">>
s_hmdb1 == <<"h","m","d","b","1">>
s_Glucose == <<"G","l","u","c","o","s","e">>
s_GLUCOSE == <<"G","L","U","C","O","S","E">>
s_glucose == <<"g","l","u","c","o","s","e">>
s_Foo == <<"F","o","o">>
s_Glycolysis == <<"G","l","y","c","o","l","y","s","i","s">>
s_TCA == <<"T","C","A">>
s_kegg == <<"k","e","g","g">>
s_reactome == <<"r","e","a","c","t","o","m","e">>
s_NA == <<"N","/","A">>

\* what the user may type into the text box (line 95); "" is the empty box
Inputs == { <<>>, s_P04637, s_HMDB0000122, s_hmdb1, s_glucose, s_Foo,
            s_Unknown }
\* the options of the select box (line 96)
AnalyteTypes == {"protein", "metabolite"}

\* Answers of the name-mapping URL: a network error, a non-200 status, a 200
\* whose body is no CSV with Name/HMDB columns, a 200 with a table.
MappingTables ==
    { <<>>,
      << [Name |-> s_Glucose, HMDB |-> s_HMDB0000122],
         [Name |-> s_GLUCOSE, HMDB |-> s_HMDB0000516] >> }
NameServices ==
    { [kind |-> "exception", status |-> 0, parsable |-> FALSE, rows |-> <<>>],
      [kind |-> "http", status |-> 404, parsable |-> FALSE, rows |-> <<>>],
      [kind |-> "http", status |-> 200, parsable |-> FALSE, rows |-> <<>>] }
    \cup { [kind |-> "http", status |-> 200, parsable |-> TRUE, rows |-> t] :
             t \in MappingTables }

\* Entries of a RaMP response: JSON objects with optional keys
Entries ==
    { [name |-> s_Glycolysis, source |-> s_kegg],
      [name |-> s_TCA],
      [pathway_name |-> s_Glycolysis],
      [source |-> s_reactome] }
EntryLists == UNION { [1..n -> Entries] : n \in 0..MaxEntries }

\* JSON bodies: a list of entries, or an object (given by its keys)
JsonList(items) == [t |-> "list", items |-> items]
JsonDict(keys) == [t |-> "dict", items |-> keys]
\* Answers of the RaMP endpoint: a network error, a non-200 status, a 200
\* whose body is not JSON, a 200 with a JSON object, a 200 with a JSON list.
QueryReplies ==
    { [kind |-> "exception", status |-> 0, json |-> FALSE, body |-> JsonDict(<<>>)],
      [kind |-> "http", status |-> 500, json |-> TRUE, body |-> JsonDict(<<"error">>)],
      [kind |-> "http", status |-> 200, json |-> FALSE, body |-> JsonDict(<<>>)],
      [kind |-> "http", status |-> 200, json |-> TRUE, body |-> JsonDict(<<>>)],
      [kind |-> "http", status |-> 200, json |-> TRUE, body |-> JsonDict(<<"error">>)] }
    \cup { [kind |-> "http", status |-> 200, json |-> TRUE, body |-> JsonList(l)] :
             l \in EntryLists }

----------------------------------------------------------------------------
(* src/main.py: the functions *)

\* map_common_name_to_hmdb (lines 15-28), given what the URL answers.  Every
\* exception (requests.get, read_csv, a missing column) is caught on line 26.
map_common_name_to_hmdb(common_name, svc) ==
    IF svc.kind = "exception" THEN None
    ELSE IF svc.status # 200 THEN None
    ELSE IF ~svc.parsable THEN None
    ELSE LET match == SelectSeq(svc.rows,
                        LAMBDA r : lower(r.Name) = lower(common_name))
         IN  IF match # <<>> THEN Some(match[1].HMDB) ELSE None

\* full_id with the two prefixes exchanged
FullId_swapped(id, type) ==
    (IF type = "metabolite" THEN s_uniprot ELSE s_hmdb) \o <<":">> \o id

\* full_id of query_ramp_api (lines 32-33)
FullId(id, type) ==
    (IF type = "metabolite" THEN s_hmdb ELSE s_uniprot) \o <<":">> \o id

\* RAMP_API_URL (line 12)
RAMP_API_URL == "https://rampdb.nih.gov/api/pathways-from-analytes"

\* the request of query_ramp_api (lines 32-39): the URL and the JSON payload
Request(id, type) ==
    [url |-> RAMP_API_URL, input |-> <<FullId(id, type)>>, type |-> "pathway"]

\* query_ramp_api with response.json() called after the try block
query_ramp_api_json_unguarded(reply) ==
    IF reply.kind = "exception"
    THEN [ret |-> JsonDict(<<>>), errors |-> <<"API connection failed">>,
          raised |-> FALSE]
    ELSE IF reply.status = 200
    THEN IF reply.json
         THEN [ret |-> reply.body, errors |-> <<>>, raised |-> FALSE]
         ELSE [ret |-> JsonDict(<<>>), errors |-> <<>>, raised |-> TRUE]
    ELSE [ret |-> JsonDict(<<>>), errors |-> <<>>, raised |-> FALSE]

\* query_ramp_api from the answer of requests.post on (lines 38-44): the value
\* returned, the st.error shown, and whether an exception leaves the function.
query_ramp_api(reply) ==
    IF reply.kind = "exception"
    THEN [ret |-> JsonDict(<<>>), errors |-> <<"API connection failed">>,
          raised |-> FALSE]
    ELSE IF reply.status = 200
    THEN IF reply.json
         THEN [ret |-> reply.body, errors |-> <<>>, raised |-> FALSE]
         ELSE \* response.json() raises inside the try block
              [ret |-> JsonDict(<<>>), errors |-> <<"API connection failed">>,
               raised |-> FALSE]
    ELSE [ret |-> JsonDict(<<>>), errors |-> <<>>, raised |-> FALSE]

\* the test on line 114
HasPathways(res) == Len(res.items) > 0 /\ res.t = "list" /\ Len(res.items) > 0

\* networkx.Graph: attributes per node, a set of unordered edges
EmptyGraph == [nodes |-> {}, attr |-> <<>>, edges |-> {}]
add_node(g, n, label, color) ==
    [g EXCEPT !.nodes = @ \cup {n},
              !.attr = [m \in g.nodes \cup {n} |->
                          IF m = n THEN [label |-> label, color |-> color]
                          ELSE g.attr[m]]]
add_edge(g, u, v) == [g EXCEPT !.edges = @ \cup {{u, v}}]

\* the loop of generate_network_graph over pathways[i..] (lines 50-53)
RECURSIVE AddPathways(_, _, _, _)
AddPathways(g, id, pathways, i) ==
    IF i > Len(pathways) THEN g
    ELSE LET pw_name == Get(pathways[i], "name", s_Unknown)
         IN  AddPathways(add_edge(add_node(g, pw_name, pw_name, "blue"),
                                  id, pw_name),
                         id, pathways, i + 1)

\* generate_network_graph (lines 47-54)
generate_network_graph(id, pathways) ==
    AddPathways(add_node(EmptyGraph, id, id, "red"), id, pathways, 1)

\* pd.DataFrame(list of dicts) (line 116): one row per dict, one column per
\* key that occurs, a missing key read as NaN (None here)
DataFrame(items) ==
    LET columns == UNION { DOMAIN items[i] : i \in 1..Len(items) }
    IN  [columns |-> columns,
         rows |-> [i \in 1..Len(items) |->
                     [c \in columns |->
                        IF c \in DOMAIN items[i] THEN Some(items[i][c])
                        ELSE None]]]

\* save_results_csv (lines 66-71): the header line, then a line per row
save_results_csv(pathways) ==
    LET df == DataFrame(pathways)
    IN  <<[header |-> TRUE, cells |-> df.columns]>> \o
        [i \in 1..Len(df.rows) |-> [header |-> FALSE, cells |-> df.rows[i]]]

\* one text line of save_results_pdf (line 81)
PdfLine(pw) ==
    [name |-> Get(pw, "name", s_Unknown), source |-> Get(pw, "source", s_NA)]
\* save_results_pdf that leaves out the entries without a name
save_results_pdf_skip_unnamed(pathways) ==
    LET named == SelectSeq(pathways, LAMBDA pw : "name" \in DOMAIN pw)
    IN  [i \in 1..Len(named) |-> PdfLine(named[i])]

\* save_results_pdf (lines 74-84): the lines after the title
save_results_pdf(pathways) ==
    [i \in 1..Len(pathways) |-> PdfLine(pathways[i])]

Msg(level, text, n) == [level |-> level, text |-> text, n |-> n]

----------------------------------------------------------------------------
(* src/main.py: the "Query Pathways" handler (lines 98-138), one action per *)
(* stretch of code between two blocking HTTP calls                          *)

NoResult == JsonDict(<<>>)
NoTable == [columns |-> {}, rows |-> <<>>]

\* a fresh run of the script: nothing shown, no request sent
InitMain ==
    /\ pc = "Idle"
    /\ analyte_input = <<>>
    /\ analyte_type = "protein"
    /\ analyte_id = <<>>
    /\ name_service \in NameServices
    /\ pending = "none"
    /\ hung = FALSE
    /\ lookups = 0
    /\ requests = <<>>
    /\ result = NoResult
    /\ messages = <<>>
    /\ table = NoTable
    /\ graph = EmptyGraph
    /\ csv_lines = <<>>
    /\ pdf_lines = <<>>
    /\ escaped = FALSE

\* The user fills the widgets (lines 95-96) and presses the button (line 98).
Click(inp, type) ==
    /\ pc = "Idle"
    /\ pc' = "Resolving"
    /\ analyte_input' = inp
    /\ analyte_type' = type
    /\ UNCHANGED <<analyte_id, name_service, pending, hung, lookups, requests,
                   result, messages, table, graph, csv_lines, pdf_lines,
                   escaped>>

\* Lines 99-102 and 110-113, up to the first HTTP call: the empty box is
\* refused (line 138); a metabolite not starting with "hmdb" goes to the name
\* lookup (requests.get, line 20); anything else is posted as it is (line 39).
Resolve ==
    /\ pc = "Resolving" /\ pending = "none" /\ ~hung
    /\ IF analyte_input = <<>>
       THEN /\ messages' = Append(messages,
                  Msg("warning", "Please enter an analyte ID or name.", 0))
            /\ pc' = "Failed"
            /\ UNCHANGED <<analyte_id, pending, lookups, requests>>
       ELSE IF analyte_type = "metabolite"
               /\ ~startswith(lower(analyte_input), s_hmdb)
       THEN /\ pending' = "lookup"
            /\ lookups' = lookups + 1
            /\ UNCHANGED <<pc, analyte_id, requests, messages>>
       ELSE /\ analyte_id' = analyte_input
            /\ requests' = Append(requests, Request(analyte_input, analyte_type))
            /\ pending' = "query"
            /\ pc' = "Querying"
            /\ UNCHANGED <<lookups, messages>>
    /\ UNCHANGED <<analyte_input, analyte_type, name_service, hung, result,
                   table, graph, csv_lines, pdf_lines, escaped>>

\* LookupReply that asks the mapping URL once more before giving up
LookupReply_retry ==
    /\ pc = "Resolving" /\ pending = "lookup" /\ ~hung
    /\ LET mapped_id == map_common_name_to_hmdb(analyte_input, name_service)
       IN  IF Truthy(mapped_id)
           THEN /\ messages' = Append(messages,
                      Msg("success", "Mapped to HMDB ID", 0))
                /\ analyte_id' = mapped_id.val
                /\ analyte_type' = "metabolite"
                /\ requests' = Append(requests,
                                      Request(mapped_id.val, "metabolite"))
                /\ pending' = "query"
                /\ pc' = "Querying"
                /\ lookups' = lookups
           ELSE IF lookups < 2
           THEN /\ lookups' = lookups + 1
                /\ UNCHANGED <<messages, analyte_id, analyte_type, requests,
                               pending, pc>>
           ELSE /\ messages' = Append(messages,
                      Msg("error", "Could not map common name to HMDB ID.", 0))
                /\ pending' = "none"
                /\ pc' = "Failed"
                /\ UNCHANGED <<analyte_id, analyte_type, requests, lookups>>
    /\ UNCHANGED <<analyte_input, name_service, hung, result, table,
                   graph, csv_lines, pdf_lines, escaped>>

\* requests.get returns or raises: the rest of map_common_name_to_hmdb and
\* lines 103-109, then line 113 up to requests.post.
LookupReply ==
    /\ pc = "Resolving" /\ pending = "lookup" /\ ~hung
    /\ LET mapped_id == map_common_name_to_hmdb(analyte_input, name_service)
       IN  IF Truthy(mapped_id)
           THEN /\ messages' = Append(messages,
                      Msg("success", "Mapped to HMDB ID", 0))
                /\ analyte_id' = mapped_id.val
                /\ analyte_type' = "metabolite"
                /\ requests' = Append(requests,
                                      Request(mapped_id.val, "metabolite"))
                /\ pending' = "query"
                /\ pc' = "Querying"
           ELSE /\ messages' = Append(messages,
                      Msg("error", "Could not map common name to HMDB ID.", 0))
                /\ pending' = "none"
                /\ pc' = "Failed"      \* st.stop()
                /\ UNCHANGED <<analyte_id, analyte_type, requests>>
    /\ UNCHANGED <<analyte_input, name_service, hung, lookups, result, table,
                   graph, csv_lines, pdf_lines, escaped>>

\* requests.post returns or raises: the rest of query_ramp_api, then lines
\* 114-117 or 135-136.
QueryReply(reply) ==
    /\ pc = "Querying" /\ pending = "query" /\ ~hung
    /\ pending' = "none"
    /\ LET r == query_ramp_api(reply)
       IN  IF r.raised
           THEN /\ escaped' = TRUE
                /\ pc' = "Crashed"
                /\ messages' = messages \o
                      [i \in 1..Len(r.errors) |-> Msg("error", r.errors[i], 0)]
                /\ UNCHANGED <<result, table>>
           ELSE /\ result' = r.ret
                /\ escaped' = escaped
                /\ IF HasPathways(r.ret)
                   THEN /\ messages' = messages \o
                             [i \in 1..Len(r.errors) |->
                                 Msg("error", r.errors[i], 0)] \o
                             <<Msg("success", "Found pathways.",
                                   Len(r.ret.items))>>
                        /\ table' = DataFrame(r.ret.items)
                        /\ pc' = "GraphBuilding"
                   ELSE /\ messages' = messages \o
                             [i \in 1..Len(r.errors) |->
                                 Msg("error", r.errors[i], 0)] \o
                             <<Msg("warning",
                                   "No pathways found for the given analyte.",
                                   0)>>
                        /\ table' = table
                        /\ pc' = "Failed"
    /\ UNCHANGED <<analyte_input, analyte_type, analyte_id, name_service, hung,
                   lookups, requests, graph, csv_lines, pdf_lines>>

\* Lines 119-134: the network graph and the two exports.
BuildAndExport ==
    /\ pc = "GraphBuilding" /\ ~hung
    /\ graph' = generate_network_graph(analyte_id, result.items)
    /\ csv_lines' = save_results_csv(result.items)
    /\ pdf_lines' = save_results_pdf(result.items)
    /\ pc' = "Ready"
    /\ UNCHANGED <<analyte_input, analyte_type, analyte_id, name_service,
                   pending, hung, lookups, requests, result, messages, table,
                   escaped>>

\* The server accepts the request and never answers: requests.get (line 20)
\* and requests.post (line 39) are called without a timeout and block.
NoReply ==
    /\ pending # "none" /\ ~hung
    /\ hung' = TRUE
    /\ UNCHANGED <<pc, analyte_input, analyte_type, analyte_id, name_service,
                   pending, lookups, requests, result, messages, table, graph,
                   csv_lines, pdf_lines, escaped>>

\* The script has run to its end (or to st.stop()); the next interaction runs
\* it again from the top with nothing carried over.
Rerun ==
    /\ pc \in {"Ready", "Failed"}
    /\ pc' = "Idle"
    /\ analyte_input' = <<>>
    /\ analyte_type' = "protein"
    /\ analyte_id' = <<>>
    /\ name_service' \in NameServices
    /\ pending' = "none"
    /\ lookups' = 0
    /\ requests' = <<>>
    /\ result' = NoResult
    /\ messages' = <<>>
    /\ table' = NoTable
    /\ graph' = EmptyGraph
    /\ csv_lines' = <<>>
    /\ pdf_lines' = <<>>
    /\ UNCHANGED <<hung, escaped>>

\* app.py is a separate script: it is not running while main.py is served
AppNotRunning ==
    /\ selected_disease = "Parkinson's Disease"
    /\ search_term = <<>>
    /\ nodes = <<>>
    /\ node_types = <<>>
    /\ edges = <<>>

Init == InitMain /\ AppNotRunning

Next ==
    \/ \E inp \in Inputs, type \in AnalyteTypes :
          Click(inp, type) /\ UNCHANGED appVars
    \/ Resolve /\ UNCHANGED appVars
    \/ LookupReply /\ UNCHANGED appVars
    \/ \E reply \in QueryReplies : QueryReply(reply) /\ UNCHANGED appVars
    \/ BuildAndExport /\ UNCHANGED appVars
    \/ NoReply /\ UNCHANGED appVars
    \/ Rerun /\ UNCHANGED appVars

Spec == Init /\ [][Next]_vars

\* The handler runs on its own thread: a step that stays possible is taken.
\* After NoReply the blocked call has no step left.
FairSpec == Spec /\ WF_vars(Next)

----------------------------------------------------------------------------
(* src/app.py: the disease explorer.  Streamlit runs the whole script again  *)
(* each time a widget changes.                                              *)

\* disease_data (lines 6-22)
disease_data ==
    ( "Parkinson's Disease" :>
        [
          proteins |->
            << <<"S","N","C","A">>,
               <<"L","R","R","K","2">>,
               <<"P","I","N","K","1">> >>,
          metabolites |->
            << <<"D","o","p","a","m","i","n","e">>,
               <<"A","l","p","h","a","-","s","y","n","u","c","l","e","i","n">>,
               <<"U","r","i","c"," ","a","c","i","d">> >>,
          pathways |->
            << <<"D","o","p","a","m","i","n","e","r","g","i","c"," ","s","y","n","a","p","s","e">>,
               <<"O","x","i","d","a","t","i","v","e"," ","p","h","o","s","p","h","o","r","y","l","a","t","i","o","n">> >> ] )
    @@
    ( "Renal Cancer" :>
        [
          proteins |->
            << <<"V","H","L">>,
               <<"H","I","F","1","A">>,
               <<"V","E","G","F","A">> >>,
          metabolites |->
            << <<"S","u","c","c","i","n","a","t","e">>,
               <<"F","u","m","a","r","a","t","e">>,
               <<"G","l","u","t","a","m","i","n","e">> >>,
          pathways |->
            << <<"H","I","F","-","1"," ","s","i","g","n","a","l","i","n","g">>,
               <<"M","e","t","a","b","o","l","i","c"," ","r","e","p","r","o","g","r","a","m","m","i","n","g">> >> ] )
    @@
    ( "Type 2 Diabetes" :>
        [
          proteins |->
            << <<"I","N","S">>,
               <<"I","R","S","1">>,
               <<"G","L","U","T","4">> >>,
          metabolites |->
            << <<"G","l","u","c","o","s","e">>,
               <<"I","n","s","u","l","i","n">>,
               <<"L","a","c","t","a","t","e">> >>,
          pathways |->
            << <<"I","n","s","u","l","i","n"," ","s","i","g","n","a","l","i","n","g">>,
               <<"G","l","y","c","o","l","y","s","i","s">> >> ] )

Diseases == DOMAIN disease_data

\* characters of the search terms typed in the model
TermChars == {"i", "I", "n", "s", "S", "1"}
Terms == UNION { [1..n -> TermChars] : n \in 0..MaxTermLen }

\* filter_nodes (lines 41-42)
filter_nodes_case_sensitive(node_list, term) ==
    SelectSeq(node_list, LAMBDA node : contains(node, term))
filter_nodes(node_list, term) ==
    SelectSeq(node_list, LAMBDA node : contains(lower(node), lower(term)))

\* `x in list`
InList(x, list) == \E i \in 1..Len(list) : list[i] = x

\* lines 35-47: the three lists after the optional filter
Shown(disease, term, kind) ==
    IF term # <<>> THEN filter_nodes(disease_data[disease][kind], term)
    ELSE disease_data[disease][kind]

\* lines 61-66: the nested loop over enumerate(nodes), indices from 0
EdgeList(all, proteins, metabolites, pathways) ==
    LET n == Len(all)
        pairs == [k \in 1..(n * n) |-> <<(k - 1) \div n, (k - 1) % n>>]
        keep(p) ==
            LET source == all[p[1] + 1]
                target == all[p[2] + 1]
            IN  /\ source # target
                /\ \/ InList(source, proteins) /\ InList(target, metabolites)
                   \/ InList(source, proteins) /\ InList(target, pathways)
    IN  SelectSeq(pairs, keep)

\* one run of the script with the widgets at (disease, term): lines 29-66
RunScript(disease, term) ==
    \E proteins \in {Shown(disease, term, "proteins")},
       metabolites \in {Shown(disease, term, "metabolites")},
       pathways \in {Shown(disease, term, "pathways")} :
        /\ selected_disease' = disease
        /\ search_term' = term
        /\ nodes' = proteins \o metabolites \o pathways
        /\ node_types' = [i \in 1..Len(proteins) |-> "Protein"] \o
                         [i \in 1..Len(metabolites) |-> "Metabolite"] \o
                         [i \in 1..Len(pathways) |-> "Pathway"]
        /\ edges' = EdgeList(proteins \o metabolites \o pathways,
                             proteins, metabolites, pathways)

\* st.selectbox (line 29) changes
SelectDisease(d) == d # selected_disease /\ RunScript(d, search_term)
\* st.text_input (line 32) changes
EnterSearch(t) == t # search_term /\ RunScript(selected_disease, t)

\* the first run: the first disease selected, the search box empty
InitApp ==
    LET d == "Parkinson's Disease"
        all == disease_data[d].proteins \o disease_data[d].metabolites \o
               disease_data[d].pathways
    IN  /\ selected_disease = d
        /\ search_term = <<>>
        /\ nodes = all
        /\ node_types = [i \in 1..Len(disease_data[d].proteins) |-> "Protein"] \o
                        [i \in 1..Len(disease_data[d].metabolites) |-> "Metabolite"] \o
                        [i \in 1..Len(disease_data[d].pathways) |-> "Pathway"]
        /\ edges = EdgeList(all, disease_data[d].proteins,
                            disease_data[d].metabolites,
                            disease_data[d].pathways)

\* main.py is a separate script: it is not running while app.py is served
MainNotRunning == InitMain /\ name_service.kind = "exception"

AppInit == MainNotRunning /\ InitApp

NextApp ==
    \/ \E d \in Diseases : SelectDisease(d) /\ UNCHANGED mainVars
    \/ \E t \in Terms : EnterSearch(t) /\ UNCHANGED mainVars

AppSpec == AppInit /\ [][NextApp]_vars

----------------------------------------------------------------------------
(* The claims.  What a claim calls a canonical form, a common name or a     *)
(* resolvable name is written here from the claim, not from the code.       *)

Last(seq) == seq[Len(seq)]
Digits == {"0","1","2","3","4","5","6","7","8","9"}

\* a UniProt-style token: O, P or Q followed by a digit (as in P04637)
UniProtLike(s) == Len(s) >= 2 /\ s[1] \in {"O", "P", "Q"} /\ s[2] \in Digits
\* an HMDB-prefixed token (as in HMDB0000122)
HMDBPrefixed(s) == Len(s) > 4 /\ SubSeq(s, 1, 4) = <<"H","M","D","B">>
Canonical(s, kind) ==
    IF kind = "protein" THEN UniProtLike(s) ELSE HMDBPrefixed(s)

\* two strings equal up to the case of their letters
SameText(a, b) ==
    /\ Len(a) = Len(b)
    /\ \A i \in 1..Len(a) :
          \/ a[i] = b[i]
          \/ \E k \in 1..26 : {a[i], b[i]} = {UpperChars[k], LowerChars[k]}

\* a non-empty input that has not the form of an id of the declared kind
\* (for a metabolite: no "hmdb" prefix in any case of letters)
CommonName(s, kind) ==
    /\ s # <<>>
    /\ IF kind = "protein" THEN ~UniProtLike(s)
       ELSE ~(Len(s) >= 4 /\ SameText(SubSeq(s, 1, 4), s_hmdb))

\* the ids the name-mapping table of this run holds for a name
MappedIds(name) ==
    IF name_service.kind = "http" /\ name_service.status = 200
       /\ name_service.parsable
    THEN { name_service.rows[i].HMDB :
             i \in { j \in 1..Len(name_service.rows) :
                       SameText(name_service.rows[j].Name, name) } }
    ELSE {}

Attempted == pc \notin {"Idle", "Resolving"}

\* C1: an attempt whose input is a common name that the name lookup cannot
\* resolve (no row matches, or the lookup fails) ends failed with an error
\* message, and no pathway request is sent for it.
C1_UnresolvedNameNeverQueried ==
    (CommonName(analyte_input, analyte_type)
       /\ MappedIds(analyte_input) = {})
    => /\ requests = <<>>
       /\ Attempted => /\ pc = "Failed"
                       /\ messages # <<>>
                       /\ Last(messages).level = "error"

\* C2: an input in the canonical form of its declared kind causes no name
\* lookup, is returned unchanged, and is queried under "uniprot:<input>"
\* (protein) or "hmdb:<input>" (metabolite).
C2_CanonicalInputPassesUnchanged ==
    Canonical(analyte_input, analyte_type)
    => /\ lookups = 0
       /\ Attempted =>
            /\ analyte_id = analyte_input
            /\ Len(requests) = 1
            /\ requests[1].input =
                 << (IF analyte_type = "protein"
                     THEN <<"u","n","i","p","r","o","t",":">>
                     ELSE <<"h","m","d","b",":">>) \o analyte_input >>

C2_Witness ==
    /\ pc = "Ready"
    /\ analyte_type = "protein"
    /\ Canonical(analyte_input, analyte_type)

\* C3: an input that is not in the canonical form of the declared kind,
\* protein or metabolite, is looked up as a common name (case-insensitive
\* exact match); when the table has the name, the query carries the mapped
\* id under the prefix hmdb, and the raw name is never sent as an identifier.
C3_CommonNameIsMapped ==
    (CommonName(analyte_input, analyte_type)
       /\ MappedIds(analyte_input) # {}
       /\ Attempted)
    => /\ lookups = 1
       /\ Len(requests) = 1
       /\ \E id \in MappedIds(analyte_input) :
             requests[1].input = << <<"h","m","d","b",":">> \o id >>

\* C4: the candidate endpoints are tried in order, one request after another,
\* and every query attempt eventually ends, in success or in failure, even
\* if an endpoint never answers.
C4_QueryEventuallyEnds ==
    /\ [](\A i \in 1..Len(requests) : requests[i].url = RAMP_API_URL)
    /\ (pc = "Querying") ~> (pc \in {"Ready", "Failed"})

\* C5: whatever the name lookup and the pathway request answer (network
\* exception, non-200 status, malformed JSON, a list of zero pathways, a body
\* that is no list), the attempt ends with a message shown to the user and
\* no exception leaves the handler.
C5_FailuresAreReported ==
    /\ ~escaped
    /\ pc # "Crashed"
    /\ pc = "Failed" =>
         /\ messages # <<>>
         /\ Last(messages).level \in {"error", "warning"}
    /\ pc \in {"GraphBuilding", "Ready"} =>
         /\ messages # <<>>
         /\ Last(messages).level = "success"

C5_Witness ==
    /\ pc = "Failed"
    /\ Len(requests) = 1
    /\ \E i \in 1..Len(messages) : messages[i].text = "API connection failed"

\* C6: the graph has exactly one Analyte node, the queried id; every edge
\* joins it to a Pathway node other than itself; n entries with pairwise
\* distinct names give n+1 nodes and n edges.
C6_StarGraph ==
    pc = "Ready" =>
      LET items == result.items
          name(i) == Get(items[i], "name", s_Unknown)
          analytes == { n \in graph.nodes : graph.attr[n].color = "red" }
      IN  /\ analytes = {analyte_id}
          /\ \A e \in graph.edges :
                \E p \in graph.nodes :
                   /\ p # analyte_id
                   /\ graph.attr[p].color = "blue"
                   /\ e = {analyte_id, p}
          /\ (\A i, j \in 1..Len(items) : i # j => name(i) # name(j))
             => /\ Cardinality(graph.nodes) = Len(items) + 1
                /\ Cardinality(graph.edges) = Len(items)

Forward ==
    { <<"Idle", "Resolving">>, <<"Resolving", "Querying">>,
      <<"Resolving", "Failed">>, <<"Querying", "GraphBuilding">>,
      <<"Querying", "Failed">>, <<"GraphBuilding", "Ready">> }
\* a finished attempt is followed by a fresh one
Fresh == { <<"Ready", "Idle">>, <<"Failed", "Idle">> }

\* C8: within an attempt the handler only moves forward through Idle,
\* Resolving, Querying, GraphBuilding/export, Ready; Failed is entered only
\* from Resolving or Querying; graph and exports exist only after a query
\* that returned a non-empty list; at most one name lookup and at most one
\* pathway request are sent per attempt.
C8_ForwardOnlyNoRetry ==
    /\ [][pc' # pc => <<pc, pc'>> \in Forward \cup Fresh]_vars
    /\ [](lookups <= 1 /\ Len(requests) <= 1)
    /\ []((graph # EmptyGraph \/ csv_lines # <<>> \/ pdf_lines # <<>>)
            => /\ pc = "Ready"
               /\ Len(requests) = 1
               /\ result.t = "list"
               /\ Len(result.items) > 0)
    /\ []((pc = "Failed" /\ Len(requests) = 1)
            => ~(result.t = "list" /\ Len(result.items) > 0))

C8_Witness ==
    /\ pc = "Ready"
    /\ lookups = 1
    /\ Len(requests) = 1
    /\ graph # EmptyGraph

\* the entries of `items` without the later ones of a name already seen
RECURSIVE Dedup(_, _, _)
Dedup(items, i, seen) ==
    IF i > Len(items) THEN <<>>
    ELSE LET nm == Get(items[i], "name", s_Unknown)
         IN  IF nm \in seen THEN Dedup(items, i + 1, seen)
             ELSE <<items[i]>> \o Dedup(items, i + 1, seen \cup {nm})

\* C9: the graph built from the entries equals the graph built from the
\* entries with later repeats of a name removed; two entries of one name
\* give 2 nodes and 1 edge.
C9_RepeatedNamesMerge ==
    pc = "Ready" =>
      LET items == result.items
          g == generate_network_graph(analyte_id, Dedup(items, 1, {}))
      IN  /\ graph.nodes = g.nodes
          /\ graph.edges = g.edges
          /\ (Len(items) = 2
               /\ Get(items[1], "name", s_Unknown)
                    = Get(items[2], "name", s_Unknown))
             => /\ Cardinality(graph.nodes) = 2
                /\ Cardinality(graph.edges) = 1

\* the part of C9 that every reachable graph satisfies: repeats of a name
\* change neither the node set nor the edge set
RepeatsChangeNothing ==
    pc = "Ready" =>
      LET g == generate_network_graph(analyte_id, Dedup(result.items, 1, {}))
      IN  graph.nodes = g.nodes /\ graph.edges = g.edges

\* `term` occurs in `name`, the case of letters aside
OccursIn(term, name) ==
    \E k \in 0..(Len(name) - Len(term)) :
       \A i \in 1..Len(term) :
          \/ term[i] = name[k + i]
          \/ \E c \in 1..26 :
                {term[i], name[k + i]} = {UpperChars[c], LowerChars[c]}

Range(seq) == { seq[i] : i \in 1..Len(seq) }
Count(x, seq) == Cardinality({ i \in 1..Len(seq) : seq[i] = x })
KindOf(disease, name) ==
    IF name \in Range(disease_data[disease].proteins) THEN "Protein"
    ELSE IF name \in Range(disease_data[disease].metabolites) THEN "Metabolite"
    ELSE "Pathway"

\* C10: the nodes shown are exactly the proteins, metabolites and pathways
\* of the selected disease whose name contains the search term (case of
\* letters aside); the edge list holds exactly one edge from each shown
\* protein to each shown metabolite and pathway, and no other edge.
C10_ExplorerNodesAndEdges ==
    LET d == disease_data[selected_disease]
        all == Range(d.proteins) \cup Range(d.metabolites) \cup Range(d.pathways)
        n == Len(nodes)
    IN  /\ Range(nodes) = { x \in all : OccursIn(search_term, x) }
        /\ Cardinality(Range(nodes)) = n
        /\ Len(node_types) = n
        /\ \A i \in 1..n : node_types[i] = KindOf(selected_disease, nodes[i])
        /\ \A i, j \in 0..(n - 1) :
              Count(<<i, j>>, edges) =
                 IF node_types[i + 1] = "Protein"
                    /\ node_types[j + 1] \in {"Metabolite", "Pathway"}
                 THEN 1 ELSE 0
        /\ Range(edges) \subseteq (0..(n - 1)) \X (0..(n - 1))
        /\ ("Protein" \notin Range(node_types)) => edges = <<>>

C10_Witness ==
    /\ search_term # <<>>
    /\ Len(edges) >= 2
    /\ Len(nodes) < 8
    /\ \E i \in 1..Len(nodes) : lower(nodes[i]) # nodes[i]
                                 /\ ~contains(nodes[i], search_term)

====
